---- MODULE Spec2Model ----
(***************************************************************************)
(* Order lifecycle of Polysport's TradeExecutor                            *)
(* (src/src/execution/trade_executor.py) with the EntryStrategy pricing    *)
(* it calls (src/src/strategy/entry_strategy.py).                          *)
(*                                                                         *)
(* Units.  Prices are integers in hundredths of a cent (Cents(42) is the   *)
(* Decimal 0.42).  Sizes are integers in 1/Scale of a share; Scale is fine *)
(* enough that every halving a bounded run can perform is exact, as        *)
(* Decimal's is.  A notional (USD) is an integer in price units times size *)
(* units, so that price * size needs no conversion.                        *)
(* None is 0 for entry_number, replaced_by and strong_team_price_cents     *)
(* (0 is falsy in Python exactly as None is).                              *)
(***************************************************************************)
EXTENDS Integers, Sequences, FiniteSets, TLC

\* ------------------------------------------------------------- bounds ----
\* Order ids the exchange hands out during one run.
MaxOrders == 4
\* External calls that fail (raise, or return no order id) in one invocation.
MaxFaults == 1
\* Events of the world (a fill, a cancellation, the end of a market) in one run.
MaxEvents == 2
\* The strategy is probed at prices that are multiples of 1/ProbeDen of a
\* price unit, with at most MaxEntries filled entries and positions of at most
\* MaxProbeSize hundredths of a share.
ProbeDen == 2
MaxEntries == 2
MaxProbeSize == 3

\* -------------------------------------------------------------- world ----
Markets == {"m1", "m2"}
Tokens == {"t1", "t2"}
TokenMarket == [t \in Tokens |-> IF t = "t1" THEN "m1" ELSE "m2"]

RECURSIVE Pow2(_)
Pow2(n) == IF n = 0 THEN 1 ELSE 2 * Pow2(n - 1)

\* Size units per 0.01 share, and per share.
Quantum == Pow2(MaxOrders)
Scale == 100 * Quantum

\* Decimal("0.1") and Decimal("0.01") shares, in size units.
RecreateDust == 10 * Quantum
UnsoldDust == Quantum

\* A price given in cents, in price units.
Cents(c) == c * 100

\* A notional given in USD, in price units times size units.
Usd(d) == d * 100 * 100 * Scale

\* entry_size_usd, Decimal("5"), in USD.
EntrySizeUsd == 5
\* Decimal("0.96"), in cents.
CeilingCents == 96

\* The favored prices the scanner reports in the runs checked (62 cents).
FavoredPrices == {Cents(62)}

VARIABLES
    tracked_orders,  \* OrderMonitor.tracked_orders, in insertion order
    open_orders,     \* the exchange's open orders (client.get_open_orders())
    balance,         \* the exchange's token balances (client.get_token_balance)
    active,          \* the scanner's truth: is the market still active
    next_id,         \* the next order id the exchange assigns
    recreated,       \* the order ids re-submitted with success so far
    market_scanner,  \* whether a MarketScanner was given to __init__
    market_queue,    \* whether a MarketQueue was given to __init__
    events,          \* the events of the world so far
    last             \* the last invocation: op, calls made, result

vars == <<tracked_orders, open_orders, balance, active, next_id, recreated,
          market_scanner, market_queue, events, last>>

\* ------------------------------------------------------------ helpers ----
Range(s) == {s[i] : i \in DOMAIN s}

\* The elements of a set of strings or numbers as a sequence, in one fixed order.
Perms(S) == {p \in [1..Cardinality(S) -> S] : \A i, j \in DOMAIN p : p[i] = p[j] => i = j}

RECURSIVE SeqOf(_)
SeqOf(S) ==
    IF S = {} THEN <<>>
    ELSE LET x == CHOOSE y \in S : TRUE IN <<x>> \o SeqOf(S \ {x})

RECURSIVE SumSizes(_)
SumSizes(S) ==
    IF S = {} THEN 0
    ELSE LET x == CHOOSE y \in S : TRUE IN x.original_size + SumSizes(S \ {x})

Min(a, b) == IF a < b THEN a ELSE b
Max(a, b) == IF a > b THEN a ELSE b

\* Python's s[:n], n possibly negative.
PyPrefix(s, n) ==
    IF n >= 0 THEN SubSeq(s, 1, Min(n, Len(s)))
    ELSE SubSeq(s, 1, Max(Len(s) + n, 0))

\* Decimal quotient a / b of a notional by a price, kept to 0.01 share
\* (ROUND_HALF_EVEN, the decimal context's rounding).
DecDiv(a, b) ==
    LET d == b * Quantum
        q == a \div d
        r == a % d
    IN  Quantum * (IF 2 * r > d \/ (2 * r = d /\ q % 2 = 1) THEN q + 1 ELSE q)

\* Variant: the half cut down to whole hundredths of a share.
HalfQuantized(x) == (x \div (2 * Quantum)) * Quantum

\* Decimal x / Decimal("2").
Half(x) == x \div 2

\* One external call of an invocation, as the log keeps it.
Call(fn, oid, token, market, side, price, amount, res, val) ==
    [fn |-> fn, oid |-> oid, token_id |-> token, market_slug |-> market,
     side |-> side, price |-> price, amount |-> amount, res |-> res, val |-> val]

\* What an external call may do in a run that has seen `faults` failures in
\* this invocation: succeed, or (within MaxFaults) fail in one of `failures`.
MayFail(faults, failures) == IF faults < MaxFaults THEN failures ELSE {}

\* ---------------------------------------------------------- the ledger ----
TrackedOrder(order_id, token_id, market_slug, side, price, size, entry_number, stp) ==
    [order_id |-> order_id, token_id |-> token_id, market_slug |-> market_slug,
     side |-> side, price |-> price, size |-> size, entry_number |-> entry_number,
     strong_team_price_cents |-> stp, status |-> "OPEN", replaced_by |-> 0]

add_order(led, o) == Append(led, o)

update_order_status(o, still_exists) ==
    IF ~still_exists /\ o.status = "OPEN" THEN [o EXCEPT !.status = "DISAPPEARED"] ELSE o

get_disappeared_orders(led) == SelectSeq(led, LAMBDA o : o.status = "DISAPPEARED")

mark_order_filled(led, order_id) ==
    [i \in DOMAIN led |->
        IF led[i].order_id = order_id THEN [led[i] EXCEPT !.status = "FILLED"] ELSE led[i]]

mark_order_recreated(led, old_id, new_id) ==
    [i \in DOMAIN led |->
        IF led[i].order_id = old_id
        THEN [led[i] EXCEPT !.status = "RECREATED", !.replaced_by = new_id]
        ELSE led[i]]

remove_order(led, order_id) == SelectSeq(led, LAMBDA o : o.order_id # order_id)

get_active_orders_by_market(led, market_slug) ==
    SelectSeq(led, LAMBDA o : o.market_slug = market_slug
                              /\ o.status \in {"OPEN", "DISAPPEARED"})

get_markets_with_orders(led) == {led[i].market_slug : i \in DOMAIN led}

\* -------------------------------------------------------- the exchange ----
OpenOrder(id, token, side, size) ==
    [id |-> id, asset_id |-> token, side |-> side, original_size |-> size]

\* What `last` holds when the last step was not an invocation of the executor.
Idle == [op |-> "idle", arg |-> {}, calls |-> <<>>, moves |-> {}, ret |-> 0,
         ids |-> <<>>, raised |-> FALSE]

\* An order resting on the account that this process did not place: the ledger
\* lives in memory only, so the orders of an earlier run are not tracked.
ForeignOrders == {OpenOrder(MaxOrders + 1, "t1", "BUY", Scale)}

\* ------------------------------------------------------------- Init ------
\* The state after construction, with both collaborators given; the scanner
\* reports the markets of `live` as active, the others have ended.  The
\* account may hold dust and a resting order from before.
InitWith(live) ==
    /\ tracked_orders = <<>>
    /\ open_orders \in SUBSET ForeignOrders
    /\ \E b \in {0, RecreateDust} : balance = [t \in Tokens |-> IF t = "t1" THEN b ELSE 0]
    /\ active = [m \in Markets |-> m \in live]
    /\ next_id = 1
    /\ recreated = {}
    /\ market_scanner = TRUE
    /\ market_queue = TRUE
    /\ events = 0
    /\ last = Idle

\* One live market.
Init == InitWith({"m1"})

\* ------------------------------------------------- the world's actions ----
\* The exchange fills an open order completely.
ExchangeFill ==
    \E x \in open_orders :
        /\ events < MaxEvents
        /\ events' = events + 1
        /\ x.side = "SELL" => balance[x.asset_id] >= x.original_size
        /\ open_orders' = open_orders \ {x}
        /\ balance' = [balance EXCEPT ![x.asset_id] =
                          IF x.side = "BUY" THEN @ + x.original_size ELSE @ - x.original_size]
        /\ last' = Idle
        /\ UNCHANGED <<tracked_orders, active, next_id, recreated, market_scanner,
                       market_queue>>

\* An open order leaves the exchange's listing without a fill.
ExchangeCancel ==
    \E x \in open_orders :
        /\ events < MaxEvents
        /\ events' = events + 1
        /\ open_orders' = open_orders \ {x}
        /\ last' = Idle
        /\ UNCHANGED <<tracked_orders, balance, active, next_id, recreated,
                       market_scanner, market_queue>>

\* A market ends.
MarketEnds ==
    \E m \in Markets :
        /\ active[m]
        /\ events < MaxEvents
        /\ events' = events + 1
        /\ active' = [active EXCEPT ![m] = FALSE]
        /\ last' = Idle
        /\ UNCHANGED <<tracked_orders, open_orders, balance, next_id, recreated,
                       market_scanner, market_queue>>

\* ------------------------------------------------------ EntryStrategy ----
\* STRATEGY_TABLE: <<min_price, max_price, entry1, entry2>>, prices in price
\* units (63.99 is 6399), entries in cents, in the dict's order.
STRATEGY_TABLE ==
    << <<6100, 6399, 42, 27>>,
       <<6400, 6699, 44, 31>>,
       <<6700, 6999, 45, 33>>,
       <<7000, 7499, 52, 38>>,
       <<7500, 7999, 58, 42>>,
       <<8000, 10000, 68, 55>> >>

NoEntry == [entry1_cents |-> 0, entry1_price |-> 0, entry2_cents |-> 0,
            entry2_price |-> 0, entry_size_usd |-> 0]

\* Variant: the test of line 55 with the upper end left out of the band.
InBandOpenEnd(band, num, den) == band[1] * den <= num /\ num < band[2] * den

\* Line 55 for the price num / den price units (the price is a float: it may
\* lie between two multiples of 0.01 cents).
InBand(band, num, den) == band[1] * den <= num /\ num <= band[2] * den

\* Lines 54-65: the first band holding the price num / den, or NoEntry for None.
entry_prices_at(num, den) ==
    LET hits == {i \in DOMAIN STRATEGY_TABLE : InBand(STRATEGY_TABLE[i], num, den)}
    IN  IF hits = {} THEN NoEntry
        ELSE LET b == STRATEGY_TABLE[CHOOSE i \in hits : \A j \in hits : i <= j]
             IN  [entry1_cents |-> b[3], entry1_price |-> Cents(b[3]),
                  entry2_cents |-> b[4], entry2_price |-> Cents(b[4]),
                  entry_size_usd |-> Usd(EntrySizeUsd)]

\* get_entry_prices for a price that is a whole number of price units.
get_entry_prices(strong_team_price_cents) == entry_prices_at(strong_team_price_cents, 1)

OrderSpec(token_id, market_slug, price, price_cents, amount_usd, entry_number) ==
    [order_type |-> "limit_buy", token_id |-> token_id, market_slug |-> market_slug,
     price |-> price, price_cents |-> price_cents, amount_usd |-> amount_usd,
     entry_number |-> entry_number]

\* Variant: both specs built from the first rung of the ladder.
calculate_ordersOneRung(market) ==
    LET entry_config == get_entry_prices(market.strong_team.price_cents)
        tok == market.strong_team.token_id
    IN  IF entry_config = NoEntry THEN <<>>
        ELSE << OrderSpec(tok, market.slug, entry_config.entry1_price,
                          entry_config.entry1_cents, entry_config.entry_size_usd, 1),
                OrderSpec(tok, market.slug, entry_config.entry1_price,
                          entry_config.entry1_cents, entry_config.entry_size_usd, 2) >>

\* calculate_orders: <<>> stands for None.
calculate_orders(market) ==
    LET entry_config == get_entry_prices(market.strong_team.price_cents)
        tok == market.strong_team.token_id
    IN  IF entry_config = NoEntry THEN <<>>
        ELSE << OrderSpec(tok, market.slug, entry_config.entry1_price,
                          entry_config.entry1_cents, entry_config.entry_size_usd, 1),
                OrderSpec(tok, market.slug, entry_config.entry2_price,
                          entry_config.entry2_cents, entry_config.entry_size_usd, 2) >>

\* The scanner's snapshot of the market whose favored outcome is token t.
MarketData(t, p) ==
    [slug |-> TokenMarket[t], strong_team |-> [token_id |-> t, price_cents |-> p]]

\* ------------------------------------------------- place_entry_orders ----
\* A run of an invocation so far: the ledger, the exchange's listing, the next
\* order id, the calls made, the status changes made, the old ids re-submitted
\* with success, the ids or count to return, the failures seen.
Run0 == [led |-> tracked_orders, open |-> open_orders, nid |-> next_id,
         calls |-> <<>>, moves |-> {}, redone |-> {}, ids |-> <<>>, cnt |-> 0,
         faults |-> 0, raised |-> FALSE]

\* The status of an order in a ledger; an order evicted from it is REMOVED.
StatusIn(led, order_id) ==
    IF \E i \in DOMAIN led : led[i].order_id = order_id
    THEN led[CHOOSE i \in DOMAIN led : led[i].order_id = order_id].status
    ELSE "REMOVED"

\* The run after a call on the ledger, with the status changes it made.
WithLedger(st, led) ==
    [st EXCEPT !.led = led,
               !.moves = @ \cup {<<st.led[i].order_id, st.led[i].status,
                                   StatusIn(led, st.led[i].order_id)>> :
                                     i \in {j \in DOMAIN st.led :
                                         st.led[j].status # StatusIn(led, st.led[j].order_id)}}]

\* What the exchange lists for a placement it accepted.
Listed(id, token_id, side, price, amount) ==
    OpenOrder(id, token_id, side, IF side = "BUY" THEN DecDiv(amount, price) ELSE amount)

\* Variant: line 58 without the division, the notional tracked as the size.
EntrySizeNotional(order_spec) == order_spec.amount_usd

\* Line 58: the size tracked for an entry.
EntrySize(order_spec) == DecDiv(order_spec.amount_usd, order_spec.price)

\* Lines 53-68: the placement returned an order id.
TrackEntry(st, order_spec, stp) ==
    [WithLedger(st, add_order(st.led,
                              TrackedOrder(st.nid, order_spec.token_id,
                                           order_spec.market_slug, "BUY", order_spec.price,
                                           EntrySize(order_spec), order_spec.entry_number,
                                           stp)))
     EXCEPT
        !.open = @ \cup {Listed(st.nid, order_spec.token_id, "BUY", order_spec.price,
                                order_spec.amount_usd)},
        !.nid = @ + 1,
        !.ids = Append(@, st.nid)]

\* Lines 45-76: the body of the loop for one order spec, every outcome of the
\* placement call.
PlaceEntry(st, order_spec, stp) ==
    LET call(res) == Call("place_limit_buy", 0, order_spec.token_id,
                          order_spec.market_slug, "BUY", order_spec.price,
                          order_spec.amount_usd, res, IF res = "ok" THEN st.nid ELSE 0)
    IN  {TrackEntry([st EXCEPT !.calls = Append(@, call("ok"))], order_spec, stp) :
            x \in IF st.nid <= MaxOrders THEN {1} ELSE {}}
        \cup {[st EXCEPT !.calls = Append(@, call(res)), !.faults = @ + 1] :
                res \in MayFail(st.faults, {"none", "raise"})}

RECURSIVE EntryLoop(_, _, _, _)
EntryLoop(S, orders, i, stp) ==
    IF i > Len(orders) THEN S
    ELSE EntryLoop(UNION {PlaceEntry(st, orders[i], stp) : st \in S}, orders, i + 1, stp)

place_entry_orders ==
    \E t \in Tokens, p \in FavoredPrices :
        /\ active[TokenMarket[t]]
        /\ TokenMarket[t] \notin get_markets_with_orders(tracked_orders)
        /\ \E st \in EntryLoop({Run0}, calculate_orders(MarketData(t, p)), 1, p) :
            /\ tracked_orders' = st.led
            /\ open_orders' = st.open
            /\ next_id' = st.nid
            /\ last' = [op |-> "place_entry_orders", arg |-> {}, calls |-> st.calls,
                        moves |-> st.moves, ret |-> Len(st.ids), ids |-> st.ids,
                        raised |-> FALSE]
            /\ UNCHANGED <<balance, active, recreated, market_scanner, market_queue, events>>

\* -------------------------------------------- check_and_recreate_orders ----
NoArg == "-"

OpenOrdersCall == Call("get_open_orders", 0, NoArg, NoArg, NoArg, 0, 0, "ok", 0)

\* Variant: presence decided without the listing, every order taken as absent.
UpdatePresenceBlind(led, listing) ==
    [i \in DOMAIN led |-> update_order_status(led[i], FALSE)]

\* Lines 143-145: every tracked order's presence against the one listing.
UpdatePresence(led, listing) ==
    LET open_order_ids == {x.id : x \in listing}
    IN  [i \in DOMAIN led |-> update_order_status(led[i], led[i].order_id \in open_order_ids)]

ActiveCall(market_slug, res) ==
    Call("is_market_active", 0, NoArg, market_slug, NoArg, 0, 0, res, 0)

\* Variant: the scanner asked inside the loop over the disappeared orders,
\* once per order.
ScanMarketsPerOrder(st, unique_markets) ==
    LET disappeared == get_disappeared_orders(st.led)
    IN  {[st EXCEPT !.calls = @ \o
            [i \in DOMAIN disappeared |->
                ActiveCall(disappeared[i].market_slug,
                           IF active[disappeared[i].market_slug] THEN "true" ELSE "false")]]}

\* Lines 157-161: the runs of the liveness pre-check.  Either every market is
\* asked, or is_market_active raises for one of them after any of the others
\* were asked (the set is walked in no particular order).
ScanMarkets(st, unique_markets) ==
    LET asked(S) == [i \in 1..Cardinality(S) |->
                        ActiveCall(SeqOf(S)[i],
                                   IF active[SeqOf(S)[i]] THEN "true" ELSE "false")]
    IN  {[st EXCEPT !.calls = @ \o asked(unique_markets)]}
        \cup {[st EXCEPT !.calls = @ \o asked(S) \o <<ActiveCall(m, "raise")>>,
                         !.faults = @ + 1, !.raised = TRUE] :
                <<m, S>> \in {<<m, S>> \in unique_markets \X SUBSET unique_markets :
                                m \notin S /\ MayFail(st.faults, {"raise"}) # {}}}

\* Variant: the test of line 160 without its negation.
EndedMarketsInverted(unique_markets) == {m \in unique_markets : active[m]}

\* Lines 156-161: the markets the scanner reports as no longer active.
EndedMarkets(unique_markets) == {m \in unique_markets : ~active[m]}

\* Variant: the comparison of line 184 turned around.
PositionExistsBelow(existing_balance) == existing_balance < RecreateDust

\* Line 184: the order was filled, not vanished.
PositionExists(existing_balance) == existing_balance > RecreateDust

\* Variant: the BUY branch passes the share count where the notional belongs.
RecreateAmountShares(side, price, size) == size

\* Lines 195-207: the size argument of the placement (amount_usdc or size).
RecreateAmount(side, price, size) == IF side = "BUY" THEN price * size ELSE size

\* Variant: lines 209-229 without the mark_order_recreated call of line 226.
TrackRecreatedUnmarked(st, order_data, call) ==
    [WithLedger(st, add_order(st.led,
                              TrackedOrder(st.nid, order_data.token_id,
                                           order_data.market_slug, order_data.side,
                                           order_data.price, order_data.size,
                                           order_data.entry_number, 0)))
     EXCEPT
        !.open = @ \cup {Listed(st.nid, order_data.token_id, order_data.side,
                                call.price, call.amount)},
        !.nid = @ + 1,
        !.calls = Append(@, call),
        !.redone = @ \cup {order_data.order_id},
        !.cnt = @ + 1]

\* Lines 209-229: the placement returned an order id.
TrackRecreated(st, order_data, call) ==
    [WithLedger(st, mark_order_recreated(
                        add_order(st.led,
                                  TrackedOrder(st.nid, order_data.token_id,
                                               order_data.market_slug, order_data.side,
                                               order_data.price, order_data.size,
                                               order_data.entry_number, 0)),
                        order_data.order_id, st.nid))
     EXCEPT
        !.open = @ \cup {Listed(st.nid, order_data.token_id, order_data.side,
                                call.price, call.amount)},
        !.nid = @ + 1,
        !.calls = Append(@, call),
        !.redone = @ \cup {order_data.order_id},
        !.cnt = @ + 1]

\* Variant: lines 171-178 without the remove_order call of line 174.
DropEndedKept(st, order_data) ==
    [st EXCEPT
        !.calls = IF market_queue
                  THEN Append(@, Call("remove_market", order_data.order_id, NoArg,
                                      order_data.market_slug, NoArg, 0, 0, "ok", 0))
                  ELSE @]

\* Lines 171-178: the order of an ended market.
DropEnded(st, order_data) ==
    [WithLedger(st, remove_order(st.led, order_data.order_id)) EXCEPT
        !.calls = IF market_queue
                  THEN Append(@, Call("remove_market", order_data.order_id, NoArg,
                                      order_data.market_slug, NoArg, 0, 0, "ok", 0))
                  ELSE @]

\* Variant: a failed re-submission closes the old order instead of leaving it
\* for the next pass.
ResubmitGivesUp(st, order_data) ==
    LET side == order_data.side
        call(res) == Call(IF side = "BUY" THEN "place_limit_buy" ELSE "place_limit_sell",
                          order_data.order_id, order_data.token_id, NoArg, side,
                          order_data.price,
                          RecreateAmount(side, order_data.price, order_data.size),
                          res, IF res = "ok" THEN st.nid ELSE 0)
    IN  {TrackRecreated(st, order_data, call("ok")) :
            x \in IF st.nid <= MaxOrders THEN {1} ELSE {}}
        \cup {[WithLedger(st, mark_order_filled(st.led, order_data.order_id))
               EXCEPT !.calls = Append(@, call(res)), !.faults = @ + 1] :
                res \in MayFail(st.faults, {"none", "raise"})}

\* Lines 190-233: re-submit the order, every outcome of the placement call.
Resubmit(st, order_data) ==
    LET side == order_data.side
        call(res) == Call(IF side = "BUY" THEN "place_limit_buy" ELSE "place_limit_sell",
                          order_data.order_id, order_data.token_id, NoArg, side,
                          order_data.price,
                          RecreateAmount(side, order_data.price, order_data.size),
                          res, IF res = "ok" THEN st.nid ELSE 0)
    IN  {TrackRecreated(st, order_data, call("ok")) :
            x \in IF st.nid <= MaxOrders THEN {1} ELSE {}}
        \cup {[st EXCEPT !.calls = Append(@, call(res)), !.faults = @ + 1] :
                res \in MayFail(st.faults, {"none", "raise"})}

\* Variant: the loop body without the continue of line 188, so that an order
\* marked filled is re-submitted as well.
RecreateOneFallsThrough(st, order_data, ended_markets) ==
    LET balcall(res, val) == Call("get_token_balance", order_data.order_id,
                                  order_data.token_id, NoArg, NoArg, 0, 0, res, val)
        existing_balance == balance[order_data.token_id]
        st1 == [st EXCEPT !.calls = Append(@, balcall("ok", existing_balance))]
    IN  IF order_data.market_slug \in ended_markets THEN {DropEnded(st, order_data)}
        ELSE {[st EXCEPT !.calls = Append(@, balcall(res, 0)), !.faults = @ + 1] :
                res \in MayFail(st.faults, {"raise"})}
             \cup IF PositionExists(existing_balance)
                  THEN Resubmit(WithLedger(st1, mark_order_filled(st1.led,
                                                                  order_data.order_id)),
                                order_data)
                  ELSE Resubmit(st1, order_data)

\* Lines 166-233: the body of the loop for one disappeared order, every
\* outcome of the calls made for it.
RecreateOne(st, order_data, ended_markets) ==
    LET balcall(res, val) == Call("get_token_balance", order_data.order_id,
                                  order_data.token_id, NoArg, NoArg, 0, 0, res, val)
        existing_balance == balance[order_data.token_id]
        st1 == [st EXCEPT !.calls = Append(@, balcall("ok", existing_balance))]
    IN  IF order_data.market_slug \in ended_markets THEN {DropEnded(st, order_data)}
        ELSE {[st EXCEPT !.calls = Append(@, balcall(res, 0)), !.faults = @ + 1] :
                res \in MayFail(st.faults, {"raise"})}
             \cup IF PositionExists(existing_balance)
                  THEN {WithLedger(st1, mark_order_filled(st1.led, order_data.order_id))}
                  ELSE Resubmit(st1, order_data)

\* Variant: a loop whose try encloses the for, so that the first failure ends it.
RECURSIVE RecreateLoopStops(_, _, _, _)
RecreateLoopStops(S, disappeared, i, ended_markets) ==
    IF i > Len(disappeared) THEN S
    ELSE RecreateLoopStops(UNION {IF st.faults > 0 THEN {st}
                                  ELSE RecreateOne(st, disappeared[i], ended_markets) :
                                    st \in S},
                           disappeared, i + 1, ended_markets)

RECURSIVE RecreateLoop(_, _, _, _)
RecreateLoop(S, disappeared, i, ended_markets) ==
    IF i > Len(disappeared) THEN S
    ELSE RecreateLoop(UNION {RecreateOne(st, disappeared[i], ended_markets) : st \in S},
                      disappeared, i + 1, ended_markets)

\* Lines 131-239: the runs of one invocation.
RecreateRuns ==
    LET st0 == WithLedger([Run0 EXCEPT !.calls = <<OpenOrdersCall>>],
                          UpdatePresence(tracked_orders, open_orders))
        disappeared == get_disappeared_orders(st0.led)
        unique_markets == IF market_scanner
                          THEN {disappeared[i].market_slug : i \in DOMAIN disappeared}
                          ELSE {}
        ended_markets == EndedMarkets(unique_markets)
        scanned == ScanMarkets(st0, unique_markets)
    IN  IF disappeared = <<>> THEN {st0}
        ELSE {st \in scanned : st.raised}
             \cup RecreateLoop({st \in scanned : ~st.raised}, disappeared, 1, ended_markets)

check_and_recreate_orders ==
    \E st \in RecreateRuns :
        /\ tracked_orders' = st.led
        /\ open_orders' = st.open
        /\ next_id' = st.nid
        /\ last' = [op |-> "check_and_recreate_orders", arg |-> {}, calls |-> st.calls,
                    moves |-> st.moves, ret |-> IF st.raised THEN -1 ELSE st.cnt,
                    ids |-> <<>>, raised |-> st.raised]
        /\ recreated' = recreated \cup st.redone
        /\ UNCHANGED <<balance, active, market_scanner, market_queue, events>>

\* ---------------------------------------- calculate_take_profit_orders ----
TpSpec(price, size, label) == [price |-> price, size |-> size, label |-> label]

\* Variant: the legs of the case "both entries filled" in the other order.
calculate_take_profit_ordersSwapped(filled_entries, strong_team_start_price_cents, total_position_size) ==
    LET entry_numbers == {filled_entries[i].entry_number : i \in DOMAIN filled_entries}
        ones == {i \in DOMAIN filled_entries : filled_entries[i].entry_number = 1}
        entry1_price == IF ones = {} THEN 0
                        ELSE filled_entries[CHOOSE i \in ones : \A j \in ones : j <= i].price
        strong_start_decimal == strong_team_start_price_cents
        half_position == Half(total_position_size)
    IN  IF 1 \in entry_numbers /\ 2 \in entry_numbers
        THEN << TpSpec(strong_start_decimal, half_position, "TP2 (50% at start price)"),
                TpSpec(entry1_price, half_position, "TP1 (50% at Entry1 price)") >>
        ELSE IF entry_numbers \cap {1, 2} # {}
        THEN << TpSpec(strong_start_decimal, half_position, "TP1 (50% at start price)"),
                TpSpec(Cents(CeilingCents), half_position, "TP2 (50% at 0.96)") >>
        ELSE <<>>

\* Lines 136-201.  strong_team_start_price_cents / 100 is the same number of
\* price units; entry1_price is that of the last filled entry numbered 1.
calculate_take_profit_orders(filled_entries, strong_team_start_price_cents, total_position_size) ==
    LET entry_numbers == {filled_entries[i].entry_number : i \in DOMAIN filled_entries}
        ones == {i \in DOMAIN filled_entries : filled_entries[i].entry_number = 1}
        entry1_price == IF ones = {} THEN 0
                        ELSE filled_entries[CHOOSE i \in ones : \A j \in ones : j <= i].price
        strong_start_decimal == strong_team_start_price_cents
        half_position == Half(total_position_size)
    IN  IF 1 \in entry_numbers /\ 2 \notin entry_numbers
        THEN << TpSpec(strong_start_decimal, half_position, "TP1 (50% at start price)"),
                TpSpec(Cents(CeilingCents), half_position, "TP2 (50% at 0.96)") >>
        ELSE IF 1 \in entry_numbers /\ 2 \in entry_numbers
        THEN << TpSpec(entry1_price, half_position, "TP1 (50% at Entry1 price)"),
                TpSpec(strong_start_decimal, half_position, "TP2 (50% at start price)") >>
        ELSE IF 2 \in entry_numbers /\ 1 \notin entry_numbers
        THEN << TpSpec(strong_start_decimal, half_position, "TP1 (50% at start price)"),
                TpSpec(Cents(CeilingCents), half_position, "TP2 (50% at 0.96)") >>
        ELSE <<>>

\* ------------------------------------------- place_take_profit_orders ----
\* Lines 101-129: every outcome of the placement call; cnt counts the order
\* ids returned to the caller (lines 359-360).
place_take_profit_orders(st, token_id, market_slug, tp_price, position_size) ==
    LET call(res) == Call("place_limit_sell", 0, token_id, market_slug, "SELL", tp_price,
                          position_size, res, IF res = "ok" THEN st.nid ELSE 0)
    IN  {[WithLedger(st, add_order(st.led,
                                   TrackedOrder(st.nid, token_id, market_slug, "SELL",
                                                tp_price, position_size, 0, 0)))
          EXCEPT
            !.open = @ \cup {Listed(st.nid, token_id, "SELL", tp_price, position_size)},
            !.nid = @ + 1,
            !.calls = Append(@, call("ok")),
            !.cnt = @ + 1] :
            x \in IF st.nid <= MaxOrders THEN {1} ELSE {}}
        \cup {[st EXCEPT !.calls = Append(@, call(res)), !.faults = @ + 1] :
                res \in MayFail(st.faults, {"none", "raise"})}

\* ---------------------------------- check_filled_positions_and_set_tp ----
\* Lines 350-360: one SELL per take-profit spec.
RECURSIVE LegLoop(_, _, _, _, _)
LegLoop(S, tp_specs, i, token_id, market_slug) ==
    IF i > Len(tp_specs) THEN S
    ELSE LegLoop(UNION {place_take_profit_orders(st, token_id, market_slug,
                                                 tp_specs[i].price, tp_specs[i].size) :
                            st \in S},
                 tp_specs, i + 1, token_id, market_slug)

\* Lines 301-308: the inferred number of filled entries.
FilledEntriesCount(buy_orders, all_open_orders, token_id) ==
    Len(buy_orders)
    - Cardinality({x \in all_open_orders : x.asset_id = token_id /\ x.side = "BUY"})

\* Variant: the whole balance is sold again, open SELL orders or not.
UnsoldPositionWhole(position_size, all_open_orders, token_id) == position_size

\* Lines 317-324: the position not yet covered by open SELL orders.
UnsoldPosition(position_size, all_open_orders, token_id) ==
    position_size
    - SumSizes({x \in all_open_orders : x.asset_id = token_id /\ x.side = "SELL"})

\* Lines 330-335: the filled entries handed to the strategy.
FilledEntries(filled) ==
    [i \in DOMAIN filled |-> [entry_number |-> filled[i].entry_number,
                              price |-> filled[i].price]]

\* Lines 338-339.
RECURSIVE MarkFilled(_, _, _)
MarkFilled(led, filled, i) ==
    IF i > Len(filled) THEN led
    ELSE MarkFilled(mark_order_filled(led, filled[i].order_id), filled, i + 1)

\* Lines 296-360: one token of a market, every outcome of the calls made.
TokenStep(st, market_slug, token_id, buy_orders, all_open_orders) ==
    LET strong_team_price_cents == buy_orders[1].strong_team_price_cents
        filled_entries_count == FilledEntriesCount(buy_orders, all_open_orders, token_id)
        balcall(res, val) == Call("get_token_balance", 0, token_id, market_slug, NoArg,
                                  0, 0, res, val)
        position_size == balance[token_id]
        unsold_position == UnsoldPosition(position_size, all_open_orders, token_id)
        filled == PyPrefix(buy_orders, filled_entries_count)
        st1 == [st EXCEPT !.calls = Append(@, balcall("ok", position_size))]
        st2 == WithLedger(st1, MarkFilled(st1.led, filled, 1))
    IN  {[st EXCEPT !.calls = Append(@, balcall(res, 0)), !.faults = @ + 1,
                    !.raised = TRUE] : res \in MayFail(st.faults, {"raise"})}
        \cup IF position_size <= 0 THEN {st1}
             ELSE IF unsold_position <= UnsoldDust THEN {st1}
             ELSE IF strong_team_price_cents # 0
             THEN LegLoop({st2},
                          calculate_take_profit_orders(FilledEntries(filled),
                                                       strong_team_price_cents,
                                                       unsold_position),
                          1, token_id, market_slug)
             ELSE {st2}

\* Lines 280-293: the tokens of the market's BUY orders, by first appearance.
RECURSIVE TokensInMarket(_, _)
TokensInMarket(market_orders, i) ==
    IF i > Len(market_orders) THEN <<>>
    ELSE LET rest == TokensInMarket(market_orders, i + 1)
             tok == market_orders[i].token_id
         IN  IF market_orders[i].side # "BUY" THEN rest
             ELSE <<tok>> \o SelectSeq(rest, LAMBDA t : t # tok)

RECURSIVE TokenLoop(_, _, _, _, _, _)
TokenLoop(S, market_slug, market_orders, tokens, i, all_open_orders) ==
    IF i > Len(tokens) THEN S
    ELSE
        LET buy_orders == SelectSeq(market_orders,
                                    LAMBDA o : o.side = "BUY" /\ o.token_id = tokens[i])
            step(st) == IF st.raised THEN {st}
                        ELSE TokenStep(st, market_slug, tokens[i], buy_orders,
                                       all_open_orders)
        IN  TokenLoop(UNION {step(st) : st \in S}, market_slug, market_orders, tokens,
                      i + 1, all_open_orders)

\* Variant: the walk without the test of lines 272-274.
MarketStepNoSkip(st, market_slug, already_profitable_markets, all_open_orders) ==
    IF st.raised THEN {st}
    ELSE LET market_orders == get_active_orders_by_market(st.led, market_slug)
         IN  TokenLoop({st}, market_slug, market_orders,
                       TokensInMarket(market_orders, 1), 1, all_open_orders)

\* Lines 271-360: one market of the walk.
MarketStep(st, market_slug, already_profitable_markets, all_open_orders) ==
    IF st.raised \/ market_slug \in already_profitable_markets THEN {st}
    ELSE LET market_orders == get_active_orders_by_market(st.led, market_slug)
         IN  TokenLoop({st}, market_slug, market_orders,
                       TokensInMarket(market_orders, 1), 1, all_open_orders)

RECURSIVE MarketLoop(_, _, _, _, _)
MarketLoop(S, markets, i, already_profitable_markets, all_open_orders) ==
    IF i > Len(markets) THEN S
    ELSE MarketLoop(UNION {MarketStep(st, markets[i], already_profitable_markets,
                                      all_open_orders) : st \in S},
                    markets, i + 1, already_profitable_markets, all_open_orders)

\* Lines 263-362: the runs of one invocation; the set of markets is walked in
\* any order.
TakeProfitRuns(already_profitable_markets) ==
    UNION {MarketLoop({[Run0 EXCEPT !.calls = <<OpenOrdersCall>>]}, markets, 1,
                      already_profitable_markets, open_orders) :
            markets \in Perms(get_markets_with_orders(tracked_orders))}

check_filled_positions_and_set_tp ==
    \* (a market with nothing tracked is never looked at: skipping it changes nothing)
    \E already_profitable_markets \in SUBSET get_markets_with_orders(tracked_orders) :
        \E st \in TakeProfitRuns(already_profitable_markets) :
            /\ tracked_orders' = st.led
            /\ open_orders' = st.open
            /\ next_id' = st.nid
            /\ last' = [op |-> "check_filled_positions_and_set_tp",
                        arg |-> already_profitable_markets, calls |-> st.calls,
                        moves |-> st.moves, ret |-> IF st.raised THEN -1 ELSE st.cnt,
                        ids |-> <<>>, raised |-> st.raised]
            /\ UNCHANGED <<balance, active, recreated, market_scanner, market_queue, events>>

Next ==
    \/ place_entry_orders
    \/ check_and_recreate_orders
    \/ check_filled_positions_and_set_tp
    \/ ExchangeFill
    \/ ExchangeCancel
    \/ MarketEnds

Spec == Init /\ [][Next]_vars

\* ------------------------------------------ the strategy, call by call ----
\* A second specification: one call of one method of EntryStrategy on an
\* input of the sets below, the call and what it returned kept in `last`.
ProbePrices ==
    (ProbeDen * (STRATEGY_TABLE[1][1] - Cents(1)))
        .. (ProbeDen * (STRATEGY_TABLE[Len(STRATEGY_TABLE)][2] + Cents(1)))

ProbeUnits ==
    (STRATEGY_TABLE[1][1] - Cents(1)) .. (STRATEGY_TABLE[Len(STRATEGY_TABLE)][2] + Cents(1))

ProbeFilled ==
    UNION {[1..n -> [entry_number : {1, 2}, price : {Cents(42), Cents(27)}]] :
            n \in 0..MaxEntries}

ProbeStart == {Cents(62), Cents(80)}

ProbeSizes == {k * Quantum : k \in 0..MaxProbeSize}

Returned(op, arg, ret) == [Idle EXCEPT !.op = op, !.arg = arg, !.ret = ret]

Untouched ==
    UNCHANGED <<tracked_orders, open_orders, balance, active, next_id, recreated,
                market_scanner, market_queue, events>>

ApplyGetEntryPrices ==
    /\ last = Idle
    /\ \E num \in ProbePrices :
        last' = Returned("get_entry_prices", <<num, ProbeDen>>,
                         entry_prices_at(num, ProbeDen))
    /\ Untouched

ApplyCalculateOrders ==
    /\ last = Idle
    /\ \E t \in Tokens, p \in ProbeUnits :
        last' = Returned("calculate_orders", <<t, p>>, calculate_orders(MarketData(t, p)))
    /\ Untouched

ApplyCalculateTakeProfitOrders ==
    /\ last = Idle
    /\ \E filled_entries \in ProbeFilled, start \in ProbeStart, total \in ProbeSizes :
        last' = Returned("calculate_take_profit_orders", <<filled_entries, start, total>>,
                         calculate_take_profit_orders(filled_entries, start, total))
    /\ Untouched

InitStrategy == Init /\ open_orders = {} /\ balance = [t \in Tokens |-> 0]

NextStrategy ==
    \/ ApplyGetEntryPrices
    \/ ApplyCalculateOrders
    \/ ApplyCalculateTakeProfitOrders

SpecStrategy == InitStrategy /\ [][NextStrategy]_vars

\* ================================================================ claims ====
Tracked == Range(tracked_orders)
TrackedAfter == Range(tracked_orders')
LastCalls == Range(last.calls)
CallsAfter == Range(last'.calls)

IsPlacement(c) == c.fn \in {"place_limit_buy", "place_limit_sell"}

\* The step is an invocation of reconcile() / of the take-profit pass.
Reconciled == last'.op = "check_and_recreate_orders"
TookProfit == last'.op = "check_filled_positions_and_set_tp"

\* A tracked order that a reconcile() starting now collects as disappeared.
Vanished(o) ==
    \/ o.status = "DISAPPEARED"
    \/ o.status = "OPEN" /\ o.order_id \notin {x.id : x \in open_orders}

\* The balance fetch made for order o in the step raised.
BalanceRaised(o) ==
    \E c \in CallsAfter : c.fn = "get_token_balance" /\ c.oid = o.order_id /\ c.res = "raise"

OkPlacements(calls) == {i \in DOMAIN calls : IsPlacement(calls[i]) /\ calls[i].res = "ok"}

\* C1: reconcile() re-submits every disappeared order of an active market whose
\* token balance is at most 0.1 with the same token, side, price and size (a BUY
\* with notional price * size, a SELL with its size); when the placement
\* returns an order id, the new order is in the ledger and the old one is
\* RECREATED with replaced_by the new id.
C1_Step ==
    (Reconciled /\ ~last'.raised) =>
        \A o \in Tracked :
            (/\ Vanished(o)
             /\ active[o.market_slug]
             /\ balance[o.token_id] <= RecreateDust
             /\ ~BalanceRaised(o)) =>
                \E c \in CallsAfter :
                    /\ c.oid = o.order_id
                    /\ c.fn = IF o.side = "BUY" THEN "place_limit_buy" ELSE "place_limit_sell"
                    /\ c.token_id = o.token_id
                    /\ c.side = o.side
                    /\ c.price = o.price
                    /\ c.amount = IF o.side = "BUY" THEN o.price * o.size ELSE o.size
                    /\ c.res = "ok" =>
                        /\ \E n \in TrackedAfter :
                            /\ n.order_id = c.val
                            /\ n.token_id = o.token_id /\ n.side = o.side
                            /\ n.price = o.price /\ n.size = o.size
                            /\ n.status = "OPEN"
                        /\ \E old \in TrackedAfter :
                            /\ old.order_id = o.order_id
                            /\ old.status = "RECREATED"
                            /\ old.replaced_by = c.val
C1_Recreate == [][C1_Step]_vars

\* A BUY was re-submitted with success and the old order points at the new one.
C1_Witness ==
    /\ last.op = "check_and_recreate_orders"
    /\ \E c \in LastCalls :
        /\ c.fn = "place_limit_buy" /\ c.oid # 0 /\ c.res = "ok"
        /\ \E old \in Tracked :
            /\ old.order_id = c.oid /\ old.status = "RECREATED" /\ old.replaced_by = c.val
            /\ c.amount = old.price * old.size
        /\ \E n \in Tracked : n.order_id = c.val /\ n.status = "OPEN"

\* C2: reconcile() marks a disappeared order of an active market whose token
\* balance exceeds 0.1 FILLED and makes no placement call for it, in that tick
\* or in any later one.
C2_Step ==
    /\ (Reconciled /\ ~last'.raised) =>
        \A o \in Tracked :
            (/\ Vanished(o)
             /\ active[o.market_slug]
             /\ balance[o.token_id] > RecreateDust
             /\ ~BalanceRaised(o)) =>
                /\ StatusIn(tracked_orders', o.order_id) = "FILLED"
                /\ ~\E c \in CallsAfter : IsPlacement(c) /\ c.oid = o.order_id
    /\ \A o \in Tracked :
        o.status = "FILLED" =>
            /\ StatusIn(tracked_orders', o.order_id) = "FILLED"
            /\ ~\E c \in CallsAfter : IsPlacement(c) /\ c.oid = o.order_id
C2_FilledNotRecreated == [][C2_Step]_vars

\* reconcile() found a position above the dust threshold and marked the order.
C2_Witness ==
    /\ last.op = "check_and_recreate_orders"
    /\ \E c \in LastCalls :
        /\ c.fn = "get_token_balance" /\ c.res = "ok" /\ c.val > RecreateDust
        /\ <<c.oid, "DISAPPEARED", "FILLED">> \in last.moves
        /\ StatusIn(tracked_orders, c.oid) = "FILLED"

\* C3: reconcile() evicts a disappeared order whose market is reported
\* inactive, tells the market queue to remove that market, makes no placement
\* call for the order and does not count it in the value returned.
C3_Step ==
    (Reconciled /\ ~last'.raised) =>
        \A o \in Tracked :
            (Vanished(o) /\ market_scanner /\ ~active[o.market_slug]) =>
                /\ \A n \in TrackedAfter : n.order_id # o.order_id
                /\ market_queue =>
                    \E c \in CallsAfter :
                        c.fn = "remove_market" /\ c.market_slug = o.market_slug
                /\ ~\E c \in CallsAfter : IsPlacement(c) /\ c.oid = o.order_id
                /\ last'.ret = Cardinality(OkPlacements(last'.calls))
C3_EndedEvicted == [][C3_Step]_vars

\* An order of an ended market was evicted and the queue was told.
C3_Witness ==
    /\ last.op = "check_and_recreate_orders"
    /\ \E c \in LastCalls :
        /\ c.fn = "remove_market"
        /\ \A n \in Tracked : n.order_id # c.oid
        /\ \E d \in LastCalls :
            d.fn = "is_market_active" /\ d.market_slug = c.market_slug /\ d.res = "false"

\* C4: no placement call of reconcile() is for an order that is RECREATED,
\* FILLED or evicted, and no order id is re-submitted with success twice.
C4_Step ==
    /\ \A c \in CallsAfter :
        (IsPlacement(c) /\ c.oid # 0) =>
            /\ \E o \in Tracked : o.order_id = c.oid /\ o.status \in {"OPEN", "DISAPPEARED"}
            /\ c.res = "ok" => c.oid \notin recreated
    /\ \A i, j \in OkPlacements(last'.calls) :
        (last'.calls[i].oid = last'.calls[j].oid /\ last'.calls[i].oid # 0) => i = j
C4_RecreatedOnce == [][C4_Step]_vars

\* reconcile() ran over an order recreated in an earlier tick and left it alone.
C4_Witness ==
    /\ last.op = "check_and_recreate_orders"
    /\ \E o \in Tracked :
        /\ o.status = "RECREATED" /\ o.order_id \in recreated
        /\ ~\E c \in LastCalls : c.oid = o.order_id \/ c.val = o.replaced_by

\* C5: every status change of a tracked order is one of the listed ones, an
\* order that is FILLED, RECREATED or evicted never changes again, and price
\* and size never change.
C5_Frozen ==
    \A o \in Tracked :
        /\ o.status \in {"FILLED", "RECREATED"} =>
            StatusIn(tracked_orders', o.order_id) = o.status
        /\ \A n \in TrackedAfter :
            n.order_id = o.order_id => n.price = o.price /\ n.size = o.size
        /\ o.status # StatusIn(tracked_orders', o.order_id) =>
            /\ \E m \in last'.moves : m[1] = o.order_id /\ m[2] = o.status
            /\ \E m \in last'.moves :
                m[1] = o.order_id /\ m[3] = StatusIn(tracked_orders', o.order_id)
C5_Fresh ==
    \A n \in TrackedAfter :
        (\A o \in Tracked : o.order_id # n.order_id) =>
            n.order_id >= next_id /\ n.status \in {"OPEN"}

C5_ListedMoves ==
    {<<"OPEN", "FILLED">>, <<"OPEN", "DISAPPEARED">>,
     <<"DISAPPEARED", "RECREATED">>, <<"DISAPPEARED", "REMOVED">>}

\* C5 as claimed.
C5_Original ==
    [][/\ \A m \in last'.moves : <<m[2], m[3]>> \in C5_ListedMoves
       /\ C5_Frozen
       /\ C5_Fresh]_vars

\* C5 amended: DISAPPEARED -> FILLED is a status change too.
C5_Amended ==
    [][/\ \A m \in last'.moves :
            <<m[2], m[3]>> \in C5_ListedMoves \cup {<<"DISAPPEARED", "FILLED">>}
       /\ C5_Frozen
       /\ C5_Fresh]_vars

\* An order that stayed DISAPPEARED over a tick was marked FILLED in a later one.
C5_Witness ==
    \E m \in last.moves :
        /\ m[2] = "DISAPPEARED" /\ m[3] = "FILLED"
        /\ ~\E k \in last.moves : k[1] = m[1] /\ k[3] = "DISAPPEARED"

\* C6: when the processing of one disappeared order fails in reconcile(), the
\* call still returns, every disappeared order of the tick is processed, and
\* the value returned is the number of orders recreated in the tick.
C6_Step ==
    (Reconciled /\ \E c \in CallsAfter : c.oid # 0 /\ c.res \in {"raise", "none"}) =>
        /\ ~last'.raised
        /\ \A o \in Tracked : Vanished(o) => \E c \in CallsAfter : c.oid = o.order_id
        /\ last'.ret = Cardinality({o \in Tracked :
                                      /\ o.status # "RECREATED"
                                      /\ StatusIn(tracked_orders', o.order_id) = "RECREATED"})
C6_ContinueOnError == [][C6_Step]_vars

\* A failure for one order was followed by the recreation of another.
C6_Witness ==
    /\ last.op = "check_and_recreate_orders"
    /\ last.ret = 1
    /\ \E i, j \in DOMAIN last.calls :
        /\ i < j
        /\ last.calls[i].oid # 0 /\ last.calls[i].res \in {"raise", "none"}
        /\ IsPlacement(last.calls[j]) /\ last.calls[j].res = "ok"
        /\ last.calls[j].oid # last.calls[i].oid

\* C7: for a token group that passes the balance and unsold checks, the
\* take-profit pass marks FILLED exactly the first filledCount orders of the
\* group's BUY orders, filledCount being their number minus the number of BUY
\* orders the exchange lists as open for the token.
C7_Step ==
    TookProfit =>
        \A t \in Tokens :
            LET buys == SelectSeq(tracked_orders,
                                  LAMBDA o : /\ o.token_id = t /\ o.side = "BUY"
                                             /\ o.status \in {"OPEN", "DISAPPEARED"})
                openBuys == {x \in open_orders : x.asset_id = t /\ x.side = "BUY"}
                filledCount == Len(buys) - Cardinality(openBuys)
                unsold == balance[t]
                          - SumSizes({x \in open_orders : x.asset_id = t /\ x.side = "SELL"})
                fetched == \E c \in CallsAfter :
                              c.fn = "get_token_balance" /\ c.token_id = t /\ c.res = "ok"
            IN  (fetched /\ balance[t] > 0 /\ unsold > UnsoldDust) =>
                    /\ \A k \in DOMAIN buys :
                        StatusIn(tracked_orders', buys[k].order_id) = "FILLED"
                            <=> k <= filledCount
                    /\ \A m \in last'.moves :
                        (m[3] = "FILLED" /\ \E o \in Tracked : o.order_id = m[1] /\ o.token_id = t)
                            => \E k \in 1..filledCount : buys[k].order_id = m[1]
C7_FirstFilled == [][C7_Step]_vars

\* C8: every SELL the take-profit pass submits for a token is a leg of
\* calculate_take_profit_orders called with the balance minus the token's open
\* SELL sizes; a leg placed with success is tracked as a SELL and counted in
\* the value returned; nothing is submitted for a group without a recorded
\* favored start price, with balance <= 0 or with unsold <= 0.01.
C8_Step ==
    TookProfit =>
        /\ \A t \in Tokens :
            LET sells == SelectSeq(last'.calls,
                                   LAMBDA c : c.fn = "place_limit_sell" /\ c.token_id = t)
                group == SelectSeq(tracked_orders,
                                   LAMBDA o : /\ o.token_id = t /\ o.side = "BUY"
                                              /\ o.status \in {"OPEN", "DISAPPEARED"})
                unsold == balance[t]
                          - SumSizes({x \in open_orders : x.asset_id = t /\ x.side = "SELL"})
            IN  sells # <<>> =>
                    /\ group # <<>>
                    /\ group[1].strong_team_price_cents # 0
                    /\ balance[t] > 0
                    /\ unsold > UnsoldDust
                    /\ \E k \in 0..Len(group) :
                        LET legs == calculate_take_profit_orders(
                                        FilledEntries(SubSeq(group, 1, k)),
                                        group[1].strong_team_price_cents, unsold)
                        IN  /\ Len(legs) = Len(sells)
                            /\ \A i \in DOMAIN legs :
                                /\ sells[i].price = legs[i].price
                                /\ sells[i].amount = legs[i].size
        /\ \A c \in CallsAfter :
            (c.fn = "place_limit_sell" /\ c.res = "ok") =>
                /\ \A o \in Tracked : o.order_id # c.val
                /\ \E n \in TrackedAfter :
                    /\ n.order_id = c.val /\ n.side = "SELL" /\ n.token_id = c.token_id
                    /\ n.price = c.price /\ n.size = c.amount
        /\ ~last'.raised => last'.ret = Cardinality(OkPlacements(last'.calls))
C8_TakeProfitLegs == [][C8_Step]_vars

\* A take-profit leg was placed while another SELL of the token was open.
C8_Witness ==
    /\ last.op = "check_filled_positions_and_set_tp"
    /\ last.ret >= 1
    /\ \E c \in LastCalls :
        /\ c.fn = "place_limit_sell" /\ c.res = "ok"
        /\ \E n \in Tracked : n.order_id = c.val /\ n.side = "SELL" /\ n.size = c.amount
        /\ \E x \in open_orders :
            /\ x.asset_id = c.token_id /\ x.side = "SELL"
            /\ \A d \in LastCalls : d.val # x.id

\* C9: an order leaves the ledger only in reconcile(), only from DISAPPEARED,
\* and only when the liveness check of that tick reported its market inactive.
C9_Step ==
    \A o \in Tracked :
        (\A n \in TrackedAfter : n.order_id # o.order_id) =>
            /\ Reconciled
            /\ <<o.order_id, "DISAPPEARED", "REMOVED">> \in last'.moves
            /\ \E c \in CallsAfter :
                c.fn = "is_market_active" /\ c.market_slug = o.market_slug /\ c.res = "false"
C9_OnlyEndedRemoved == [][C9_Step]_vars

\* An order was evicted.
C9_Witness ==
    /\ last.op = "check_and_recreate_orders"
    /\ \E m \in last.moves : m[2] = "DISAPPEARED" /\ m[3] = "REMOVED"

\* C10: an invocation in which is_market_active (reconcile()) or
\* get_token_balance (take-profit pass) fails for one item does not raise: it
\* skips the item and returns its count.
C10_FailedCallSkipped ==
    (\E c \in LastCalls :
        /\ c.res = "raise"
        /\ \/ last.op = "check_and_recreate_orders" /\ c.fn = "is_market_active"
           \/ last.op = "check_filled_positions_and_set_tp" /\ c.fn = "get_token_balance")
        => ~last.raised /\ last.ret >= 0

\* C11: place_entry_orders attempts every order spec of the batch, in order; a
\* placement that returns no order id or raises does not stop the batch; the
\* ids returned are those of the placements that returned an order id, in
\* order, and exactly these are added to the ledger, as OPEN BUY orders of
\* size notional / price.
C11_Step ==
    last'.op = "place_entry_orders" =>
        LET calls == last'.calls
            oks == SelectSeq(calls, LAMBDA c : c.res = "ok")
        IN  /\ ~last'.raised
            /\ \E t \in Tokens, p \in FavoredPrices :
                LET orders == calculate_orders(MarketData(t, p))
                IN  /\ Len(calls) = Len(orders)
                    /\ \A i \in DOMAIN orders :
                        /\ calls[i].fn = "place_limit_buy"
                        /\ calls[i].token_id = orders[i].token_id
                        /\ calls[i].price = orders[i].price
                        /\ calls[i].amount = orders[i].amount_usd
            /\ last'.ids = [i \in DOMAIN oks |-> oks[i].val]
            /\ Len(tracked_orders') = Len(tracked_orders) + Len(oks)
            /\ SubSeq(tracked_orders', 1, Len(tracked_orders)) = tracked_orders
            /\ \A i \in DOMAIN oks :
                LET n == tracked_orders'[Len(tracked_orders) + i]
                IN  /\ n.order_id = oks[i].val
                    /\ n.side = "BUY" /\ n.status = "OPEN"
                    /\ n.token_id = oks[i].token_id
                    /\ n.price = oks[i].price
                    /\ n.size = DecDiv(oks[i].amount, oks[i].price)
C11_EntryBatch == [][C11_Step]_vars

\* The first placement of a batch failed and the second was placed and tracked.
C11_Witness ==
    /\ last.op = "place_entry_orders"
    /\ Len(last.calls) = 2
    /\ last.calls[1].res \in {"none", "raise"}
    /\ last.calls[2].res = "ok"
    /\ last.ids = <<last.calls[2].val>>
    /\ \E n \in Tracked : n.order_id = last.calls[2].val /\ n.entry_number = 2

\* C12: for a market of already_profitable_markets the take-profit pass marks
\* no order FILLED, makes no call, adds nothing to the count returned and
\* leaves the market's ledger entries as they were.
C12_Step ==
    TookProfit =>
        \A m \in last'.arg :
            /\ SelectSeq(tracked_orders', LAMBDA o : o.market_slug = m)
                 = SelectSeq(tracked_orders, LAMBDA o : o.market_slug = m)
            /\ \A mv \in last'.moves :
                \A o \in Tracked : o.order_id = mv[1] => o.market_slug # m
            /\ \A c \in CallsAfter :
                c.fn \in {"place_limit_sell", "get_token_balance"} =>
                    c.market_slug # m /\ TokenMarket[c.token_id] # m
            /\ ~last'.raised =>
                last'.ret = Cardinality({i \in OkPlacements(last'.calls) :
                                            last'.calls[i].market_slug # m})
C12_SkippedUntouched == [][C12_Step]_vars

\* A market with a position to sell and a recorded favored price was skipped.
C12_Witness ==
    /\ last.op = "check_filled_positions_and_set_tp"
    /\ \E m \in last.arg :
        \E o \in Tracked :
            /\ o.market_slug = m /\ o.side = "BUY" /\ o.status = "OPEN"
            /\ o.strong_team_price_cents # 0
            /\ o.order_id \notin {x.id : x \in open_orders}
            /\ balance[o.token_id] > UnsoldDust
            /\ ~\E x \in open_orders : x.asset_id = o.token_id /\ x.side = "SELL"
    /\ last.ret = 0

\* The bands of the ladder as the specification lists them: from, to (in
\* price units, 63.99 cents is 6399), entry 1 and entry 2 in cents.
LadderBands ==
    { <<6100, 6399, 42, 27>>, <<6400, 6699, 44, 31>>, <<6700, 6999, 45, 33>>,
      <<7000, 7499, 52, 38>>, <<7500, 7999, 58, 42>>, <<8000, 10000, 68, 55>> }

\* The bands that hold the price num / den.
BandsOf(num, den) == {b \in LadderBands : b[1] * den <= num /\ num <= b[2] * den}

\* C13: get_entry_prices returns a ladder iff the price lies in one of the six
\* bands, both ends included, and then that band's entry cents; it returns
\* None below 61, above 100 and strictly between two bands; no price lies in
\* two bands.
C13_Ladder ==
    last.op = "get_entry_prices" =>
        LET matching == BandsOf(last.arg[1], last.arg[2])
        IN  /\ Cardinality(matching) <= 1
            /\ (last.ret = NoEntry) <=> (matching = {})
            /\ \A b \in matching :
                /\ last.ret.entry1_cents = b[3]
                /\ last.ret.entry2_cents = b[4]

\* A price strictly between 63.99 and 64 cents got no ladder.
C13_Witness ==
    /\ last.op = "get_entry_prices"
    /\ 6399 * last.arg[2] < last.arg[1]
    /\ last.arg[1] < 6400 * last.arg[2]
    /\ last.ret = NoEntry

\* C14: calculate_orders returns None when the favored price is in no band,
\* and otherwise two BUY specs on the favored token and the market's slug,
\* the first at the entry 1 price with entry_number 1, the second at the entry
\* 2 price with entry_number 2, each with the notional of 5 USD.
C14_TwoSpecs ==
    last.op = "calculate_orders" =>
        LET t == last.arg[1]
            matching == BandsOf(last.arg[2], 1)
            orders == last.ret
        IN  /\ (orders = <<>>) <=> (matching = {})
            /\ \A b \in matching :
                /\ Len(orders) = 2
                /\ \A i \in 1..2 :
                    /\ orders[i].order_type = "limit_buy"
                    /\ orders[i].token_id = t
                    /\ orders[i].market_slug = TokenMarket[t]
                    /\ orders[i].entry_number = i
                    /\ orders[i].price_cents = b[2 + i]
                    /\ orders[i].price = b[2 + i] * 100
                    /\ orders[i].amount_usd = 5 * 100 * 100 * Scale

\* Two specs were built for a favored price of 65 cents.
C14_Witness ==
    /\ last.op = "calculate_orders"
    /\ last.arg[2] = 6500
    /\ Len(last.ret) = 2
    /\ last.ret[1].price_cents = 44 /\ last.ret[2].price_cents = 31

\* The entry numbers among the filled entries of a take-profit call.
FilledNumbers == {last.arg[1][i].entry_number : i \in DOMAIN last.arg[1]}

\* C15: calculate_take_profit_orders returns, in this order: for entries {1}
\* or {2}, the favored start price and 0.96, each for half the size; for
\* entries {1, 2}, the price of entry 1 and the favored start price, each for
\* half the size; for no entries, nothing.
C15_Legs ==
    last.op = "calculate_take_profit_orders" =>
        LET filled_entries == last.arg[1]
            start == last.arg[2]
            total == last.arg[3]
            legs == last.ret
            halves == Len(legs) = 2 /\ \A i \in 1..2 : 2 * legs[i].size = total
        IN  /\ FilledNumbers \in {{1}, {2}} =>
                halves /\ legs[1].price = start /\ legs[2].price = 9600
            /\ FilledNumbers = {1, 2} =>
                /\ halves
                /\ \E i \in DOMAIN filled_entries :
                    /\ filled_entries[i].entry_number = 1
                    /\ legs[1].price = filled_entries[i].price
                /\ legs[2].price = start
            /\ FilledNumbers = {} => legs = <<>>

\* Both entries filled: the first leg is at the price of entry 1.
C15_Witness ==
    /\ last.op = "calculate_take_profit_orders"
    /\ FilledNumbers = {1, 2}
    /\ last.arg[3] > 0
    /\ Len(last.ret) = 2
    /\ last.ret[1].price # last.arg[2]
    /\ last.ret[2].price = last.arg[2]

\* The sizes of the legs returned, summed.
RECURSIVE LegSum(_)
LegSum(legs) == IF legs = <<>> THEN 0 ELSE Head(legs).size + LegSum(Tail(legs))

\* C16 as claimed: for every input the legs are two, each of half the size,
\* and their sizes sum to the size given.
C16_Original ==
    last.op = "calculate_take_profit_orders" =>
        /\ Len(last.ret) = 2
        /\ LegSum(last.ret) = last.arg[3]

\* C16 amended: for every input with at least one filled entry numbered 1 or
\* 2 the legs are two, each of half the size given, and their sizes sum to it.
C16_Amended ==
    (last.op = "calculate_take_profit_orders" /\ FilledNumbers \cap {1, 2} # {}) =>
        /\ Len(last.ret) = 2
        /\ \A i \in 1..2 : 2 * last.ret[i].size = last.arg[3]
        /\ LegSum(last.ret) = last.arg[3]

\* An odd number of hundredths of a share was split in two equal legs.
C16_Witness ==
    /\ last.op = "calculate_take_profit_orders"
    /\ last.arg[3] = 3 * Quantum
    /\ Len(last.ret) = 2
    /\ last.ret[1].size = last.ret[2].size
    /\ LegSum(last.ret) = 3 * Quantum

\* The calls of is_market_active for market m among `calls`.
LivenessCalls(calls, m) ==
    {i \in DOMAIN calls : calls[i].fn = "is_market_active" /\ calls[i].market_slug = m}

\* C17: one invocation of reconcile() calls is_market_active at most once for
\* a market, however many disappeared orders are of that market, and not at
\* all for a market none of whose orders has disappeared.
C17_Step ==
    /\ Reconciled =>
        \A m \in Markets :
            /\ Cardinality(LivenessCalls(last'.calls, m)) <= 1
            /\ LivenessCalls(last'.calls, m) # {} =>
                \E o \in Tracked : Vanished(o) /\ o.market_slug = m
    /\ \A c \in CallsAfter : c.fn = "is_market_active" => Reconciled
C17_OncePerMarket == [][C17_Step]_vars

\* Two disappeared orders of one market were processed after a single call.
C17_Witness ==
    /\ last.op = "check_and_recreate_orders"
    /\ ~last.raised
    /\ \E m \in Markets :
        /\ Cardinality(LivenessCalls(last.calls, m)) = 1
        /\ \E c, d \in LastCalls :
            /\ c.fn = "get_token_balance" /\ d.fn = "get_token_balance"
            /\ c.oid # d.oid
            /\ TokenMarket[c.token_id] = m /\ TokenMarket[d.token_id] = m

\* The calls of get_open_orders among `calls`.
ListingCalls(calls) == {i \in DOMAIN calls : calls[i].fn = "get_open_orders"}

\* C18: an invocation of reconcile() or of the take-profit pass fetches the
\* open-order listing once, as its first call, and decides on that listing:
\* an OPEN order becomes DISAPPEARED iff the listing lacks it, only orders the
\* listing lacks are dropped, balance-checked or re-submitted, and the number
\* of orders of a token marked FILLED follows from the listing's BUY orders.
C18_Step ==
    /\ (Reconciled \/ TookProfit) => ListingCalls(last'.calls) = {1}
    /\ \A c \in CallsAfter :
        c.fn = "get_open_orders" => last'.op \notin {"idle", "place_entry_orders"}
    /\ Reconciled =>
        \A o \in Tracked :
            /\ o.status = "OPEN" =>
                (<<o.order_id, "OPEN", "DISAPPEARED">> \in last'.moves
                    <=> o.order_id \notin {x.id : x \in open_orders})
            /\ (\E c \in CallsAfter : c.oid = o.order_id) => Vanished(o)
            /\ (\E mv \in last'.moves : mv[1] = o.order_id) => Vanished(o)
    /\ TookProfit =>
        \A t \in Tokens :
            LET buys == SelectSeq(tracked_orders,
                                  LAMBDA o : /\ o.token_id = t /\ o.side = "BUY"
                                             /\ o.status \in {"OPEN", "DISAPPEARED"})
                listed == Cardinality({x \in open_orders : x.asset_id = t /\ x.side = "BUY"})
                count == Len(buys) - listed
                taken == IF count >= 0 THEN count
                         ELSE IF Len(buys) + count > 0 THEN Len(buys) + count ELSE 0
                unsold == balance[t]
                          - SumSizes({x \in open_orders : x.asset_id = t /\ x.side = "SELL"})
                fetched == \E c \in CallsAfter :
                              c.fn = "get_token_balance" /\ c.token_id = t /\ c.res = "ok"
                marked == {mv \in last'.moves :
                              /\ mv[3] = "FILLED"
                              /\ \E o \in Tracked : o.order_id = mv[1] /\ o.token_id = t}
            IN  Cardinality(marked)
                    = IF fetched /\ balance[t] > 0 /\ unsold > UnsoldDust THEN taken ELSE 0
FailedResubmits(calls, id) ==
    {c \in calls : IsPlacement(c) /\ c.oid = id /\ c.res \in {"none", "raise"}}

\* C19: an order whose re-submission fails (the placement raises or returns no
\* order id) stays DISAPPEARED with no replaced_by link and without a ledger
\* entry added for it, and a reconcile() that finds a DISAPPEARED order absent
\* from the exchange, its market active and its balance at most 0.1, submits
\* it again.
C19_Step ==
    Reconciled =>
        /\ \A o \in Tracked :
            FailedResubmits(CallsAfter, o.order_id) # {} =>
                /\ StatusIn(tracked_orders', o.order_id) = "DISAPPEARED"
                /\ \A n \in TrackedAfter : n.order_id = o.order_id => n.replaced_by = 0
                /\ ~\E c \in CallsAfter : IsPlacement(c) /\ c.oid = o.order_id /\ c.res = "ok"
        /\ Cardinality({n.order_id : n \in TrackedAfter} \ {o.order_id : o \in Tracked})
                = Cardinality(OkPlacements(last'.calls))
        /\ ~last'.raised =>
            \A o \in Tracked :
                (/\ o.status = "DISAPPEARED"
                 /\ o.order_id \notin {x.id : x \in open_orders}
                 /\ active[o.market_slug]
                 /\ balance[o.token_id] <= RecreateDust
                 /\ ~BalanceRaised(o)) =>
                    \E c \in CallsAfter :
                        /\ IsPlacement(c) /\ c.oid = o.order_id
                        /\ c.side = o.side /\ c.price = o.price
C19_RetryNextPass == [][C19_Step]_vars

\* reconcile() re-submitted an order that an earlier pass had left DISAPPEARED,
\* and the re-submission failed again.
C19_Witness ==
    /\ last.op = "check_and_recreate_orders"
    /\ \E o \in Tracked :
        /\ o.status = "DISAPPEARED"
        /\ o.replaced_by = 0
        /\ FailedResubmits(LastCalls, o.order_id) # {}
        /\ ~\E mv \in last.moves : mv[1] = o.order_id

\* Token `t` holds more than its open SELL orders cover, beyond the dust.
Uncovered(t) ==
    balance[t] - SumSizes({x \in open_orders : x.asset_id = t /\ x.side = "SELL"})
        > UnsoldDust

\* Token `t` has a tracked entry with a recorded favored start price that is
\* marked FILLED, an uncovered position, and two order ids left for the legs.
OwedTakeProfit(t) ==
    /\ Uncovered(t)
    /\ next_id + 1 <= MaxOrders
    /\ \E o \in Tracked :
        /\ o.token_id = t /\ o.side = "BUY" /\ o.status = "FILLED"
        /\ o.strong_team_price_cents # 0

\* A run of a pass in which every external call succeeded.
Succeeded(st) ==
    /\ ~st.raised
    /\ \A i \in DOMAIN st.calls : st.calls[i].res \notin {"raise", "none"}

\* Neither pass of a tick, run with its calls succeeding and no market to
\* skip, changes the ledger or the exchange's orders: ticking on from here
\* repeats this state for as long as the exchange does nothing.
Stalled ==
    \A st \in RecreateRuns \cup TakeProfitRuns({}) :
        Succeeded(st) => st.led = tracked_orders /\ st.open = open_orders

\* C20: under repeated ticks whose calls succeed, a token with an entry
\* already marked FILLED, a recorded favored start price and a balance
\* exceeding its open SELL size by more than 0.01 eventually has its unsold
\* amount covered by take-profit SELL orders: the ticks never come to rest
\* while such a token is uncovered.
C20_EventuallyCovered == \A t \in Tokens : OwedTakeProfit(t) => ~Stalled

\* The total size of the SELL orders open on the exchange for token `t`; the
\* exchange's other orders (ForeignOrders) are BUY orders, so these are the
\* executor's own.
OpenSellSize(t) == SumSizes({x \in open_orders : x.asset_id = t /\ x.side = "SELL"})

\* C21: whatever passes and exchange fills have happened, the SELL orders the
\* executor has open for a token never add up to more than the token's
\* balance; a take-profit SELL that was filled is not re-submitted when the
\* balance that remains is at most 0.1.
C21_SellsWithinBalance == \A t \in Tokens : OpenSellSize(t) <= balance[t]

\* The tracked BUY entries of token `t` the take-profit pass looks at, and the
\* open BUY orders the exchange lists for it.
TrackedBuys(t) ==
    {o \in Tracked : o.token_id = t /\ o.side = "BUY" /\ o.status \in {"OPEN", "DISAPPEARED"}}
ListedBuys(t) == {x \in open_orders : x.asset_id = t /\ x.side = "BUY"}

\* C22: the take-profit pass marks no order of a token FILLED when the
\* exchange lists at least as many open BUY orders for the token as the
\* ledger tracks BUY entries for it, more listed than tracked included.
C22_Step ==
    TookProfit =>
        \A t \in Tokens :
            Cardinality(ListedBuys(t)) >= Cardinality(TrackedBuys(t)) =>
                ~\E mv \in last'.moves :
                    /\ mv[3] = "FILLED"
                    /\ \E o \in Tracked : o.order_id = mv[1] /\ o.token_id = t
C22_NoneFilled == [][C22_Step]_vars

\* The ledger entries reconcile() created in the last step, each paired with
\* the order it replaces.
Replacements ==
    {<<o, n>> \in Tracked \X TrackedAfter :
        /\ o.status # "RECREATED"
        /\ \E r \in TrackedAfter :
            /\ r.order_id = o.order_id /\ r.status = "RECREATED"
            /\ r.replaced_by = n.order_id}

\* C23: the ledger entry reconcile() creates for a replacement order carries
\* the entry_number and the favored start price of the order it replaces.
C23_Step ==
    Reconciled =>
        \A p \in Replacements :
            /\ p[2].entry_number = p[1].entry_number
            /\ p[2].strong_team_price_cents = p[1].strong_team_price_cents
C23_SameEntry == [][C23_Step]_vars

====
